---- MODULE Spec2Model ----
(***************************************************************************)
(* Session and scheduling controller of the gomoku client: the useGame     *)
(* move pipeline, the useAutoPlay scheduler and the App wiring between     *)
(* them, over an abstract engine reached through asynchronous calls.       *)
(*                                                                         *)
(* React is modelled by what the hooks rely on: a setState call changes    *)
(* the state that the next render will show; callbacks read the values     *)
(* captured by the render that created them (r* variables); passive        *)
(* effects run after a commit and before the next render; updates made in  *)
(* a user-event handler are rendered synchronously at the end of the       *)
(* event-loop turn (FlushSync), updates made in promise continuations and  *)
(* timers are rendered later (Render, RunEffects).                         *)
(***************************************************************************)
EXTENDS Integers, Sequences, FiniteSets, TLC

\* ------------------------------------------------------------- bounds
BoardSize == 2      \* side of the board (15 in defaultSnapshot)
MaxMoves == 2       \* the engine ends a game after this many stones
MaxCalls == 2       \* asynchronous invocations in flight at once
MaxBurst == 2       \* handler invocations within one event-loop turn
MaxGames == 1       \* new games started in a run
MaxRenders == 3     \* renders within one synchronous flush
MaxTotal == 2       \* games of a self-play run, as its progress events count them

NULL == "null"
Coords == 0..(BoardSize - 1)
Slots == 1..MaxCalls

\* ------------------------------------------------------------- types.ts
HvaB == [type |-> "human_vs_ai", humanColor |-> "B"]
HvaW == [type |-> "human_vs_ai", humanColor |-> "W"]
AvA == [type |-> "ai_vs_ai", humanColor |-> NULL]
HvH == [type |-> "human_vs_human", humanColor |-> NULL]
GameModes == {HvaB, HvaW, AvA, HvH}

defaultGameMode == HvaB

emptyBoard(size) == [i \in 0..(size * size - 1) |-> NULL]

defaultSnapshot ==
  [boardSize |-> BoardSize, board |-> emptyBoard(BoardSize), ruleSet |-> "standard",
   toMove |-> "B", result |-> NULL, moves |-> <<>>, mode |-> defaultGameMode,
   canHumanMove |-> TRUE]

\* "no snapshot": the null a failed call returns
NoSnap ==
  [boardSize |-> 0, board |-> emptyBoard(0), ruleSet |-> NULL,
   toMove |-> NULL, result |-> NULL, moves |-> <<>>, mode |-> HvH,
   canHumanMove |-> FALSE]

\* ------------------------------------------------------------- engine
\* The engine process behind the gateway: it owns the authoritative game.
Other(p) == IF p = "B" THEN "W" ELSE "B"
Win(p) == IF p = "B" THEN "B_WIN" ELSE "W_WIN"

EngineCanHumanMove(mode, toMove) ==
  CASE mode.type = "human_vs_human" -> TRUE
    [] mode.type = "human_vs_ai" -> toMove = mode.humanColor
    [] OTHER -> FALSE

EngineNewGame(mode) ==
  [defaultSnapshot EXCEPT !.mode = mode,
                          !.canHumanMove = EngineCanHumanMove(mode, "B")]

\* results the engine may report after the stone that is being placed
EngineOutcomes(s) ==
  IF Len(s.moves) + 1 >= MaxMoves THEN {"DRAW"}
  ELSE {NULL, Win(s.toMove)}

EngineLegal(s, x, y) ==
  /\ s.result = NULL
  /\ x \in 0..(s.boardSize - 1) /\ y \in 0..(s.boardSize - 1)
  /\ s.board[y * s.boardSize + x] = NULL

EnginePlace(s, x, y, res) ==
  [s EXCEPT !.board[y * s.boardSize + x] = s.toMove,
            !.moves = Append(@, [x |-> x, y |-> y, player |-> s.toMove]),
            !.toMove = Other(s.toMove),
            !.result = res,
            !.canHumanMove = EngineCanHumanMove(s.mode, Other(s.toMove))]

\* every snapshot a successful make_move(x, y) may return
EngineMakeMove(s, x, y) ==
  IF EngineLegal(s, x, y) THEN {EnginePlace(s, x, y, r) : r \in EngineOutcomes(s)}
  ELSE {}

\* every snapshot a successful ai_move() may return: the search settles on the
\* first empty cell
EngineAiMove(s) ==
  LET empty == {i \in DOMAIN s.board : s.board[i] = NULL}
  IN IF empty = {} THEN {}
     ELSE LET i == CHOOSE j \in empty : \A k \in empty : j <= k
          IN EngineMakeMove(s, i % s.boardSize, i \div s.boardSize)

\* String(err) of a rejected invoke
ErrText(cmd) ==
  CASE cmd = "make_move" -> "make_move failed"
    [] cmd = "ai_move" -> "ai_move failed"
    [] cmd = "new_game" -> "new_game failed"
    [] cmd = "start_self_play" -> "start_self_play failed"
    [] cmd = "stop_self_play" -> "stop_self_play failed"
    [] cmd = "save_game" -> "save_game failed"
    [] OTHER -> "call failed"

NoTauriText == "Run via Tauri to enable game commands."

\* ------------------------------------------------------------- state
VARIABLES
  eng,            \* the engine's authoritative snapshot
  isTauri,        \* whether the call surface exists ('__TAURI__' in window)
  game, busy, error, canRetryAi,          \* useGame state
  isPlaying, speed,                       \* useAutoPlay state
  intervalRef, steppingRef,               \* useAutoPlay refs
  intervals,      \* live setInterval timers, each with the closure of its callback
  timeouts,       \* pending setTimeout(300) timers of handleNewGame, with their closure
  rGame, rBusy, rIsPlaying, rSpeed,       \* values captured by the last committed render
  dirty,          \* a state update has been made since the last render
  effectPending,  \* the last commit's passive effects have not run yet
  hasCleanup,     \* the interval effect's last run returned its cleanup
  modeDep,        \* isAiVsAi at the last run of the mode effect (its dependency)
  navMode, settingsPage,                  \* useNavigation state
  rNavMode, rSettingsPage,                \* ... as captured by the last committed render
  spBusy, progress, report, eta, spError, \* useSelfPlay state
  startRef,       \* useSelfPlay's anchor timestamp (0: null)
  rSpBusy,        \* useSelfPlay's busy as captured by the last committed render
  includeLlm, llmIds,                     \* useSelfPlay's participant selection
  rIncludeLlm, rLlmIds,                   \* ... as captured by the last committed render
  procs,          \* asynchronous invocations in flight, by slot
  stopped, autoAfterStop, tickAfterStop,  \* history: auto-play steps since stop()
  wasPlaying,     \* history: the scheduler was playing when stop() was last called
  lastSurfaced,   \* history: the hook whose error was set most recently
  games,          \* new games started so far
  now,            \* Date.now(), in milliseconds
  jobRunning,     \* the backend's self-play job is running
  seconds, formatted,   \* an argument of formatDuration and the string it returned
  turn,           \* handler invocations made in the open event-loop turn (0: none open)
  ev              \* label of the last step taken

cvars ==
  <<game, busy, error, canRetryAi, isPlaying, speed, intervalRef, steppingRef,
    intervals, timeouts, rGame, rBusy, rIsPlaying, rSpeed, dirty, effectPending,
    hasCleanup, modeDep, navMode, settingsPage, rNavMode, rSettingsPage,
    spBusy, progress, report, eta, spError, startRef, rSpBusy,
    includeLlm, llmIds, rIncludeLlm, rLlmIds, procs>>

hvars == <<stopped, autoAfterStop, tickAfterStop, wasPlaying>>

tvars == <<now, jobRunning, seconds, formatted>>

vars == <<eng, isTauri, cvars, hvars, lastSurfaced, tvars, games, turn, ev>>

\* the client state as one value, so that handlers compose as the code's calls do
S ==
  [game |-> game, busy |-> busy, error |-> error, canRetryAi |-> canRetryAi,
   isPlaying |-> isPlaying, speed |-> speed, intervalRef |-> intervalRef,
   steppingRef |-> steppingRef, intervals |-> intervals, timeouts |-> timeouts,
   rGame |-> rGame, rBusy |-> rBusy, rIsPlaying |-> rIsPlaying, rSpeed |-> rSpeed,
   dirty |-> dirty, effectPending |-> effectPending, hasCleanup |-> hasCleanup,
   modeDep |-> modeDep, navMode |-> navMode, settingsPage |-> settingsPage,
   spBusy |-> spBusy, progress |-> progress, report |-> report, eta |-> eta,
   spError |-> spError, startRef |-> startRef, rSpBusy |-> rSpBusy,
   rNavMode |-> rNavMode, rSettingsPage |-> rSettingsPage,
   includeLlm |-> includeLlm, llmIds |-> llmIds,
   rIncludeLlm |-> rIncludeLlm, rLlmIds |-> rLlmIds,
   procs |-> procs,
   overflow |-> FALSE]   \* set when a dispatch finds no free slot (the MaxCalls bound)

Commit(c) ==
  /\ c.overflow = FALSE
  /\ game' = c.game /\ busy' = c.busy /\ error' = c.error
  /\ canRetryAi' = c.canRetryAi /\ isPlaying' = c.isPlaying /\ speed' = c.speed
  /\ intervalRef' = c.intervalRef /\ steppingRef' = c.steppingRef
  /\ intervals' = c.intervals /\ timeouts' = c.timeouts
  /\ rGame' = c.rGame /\ rBusy' = c.rBusy /\ rIsPlaying' = c.rIsPlaying
  /\ rSpeed' = c.rSpeed /\ dirty' = c.dirty /\ effectPending' = c.effectPending
  /\ hasCleanup' = c.hasCleanup /\ modeDep' = c.modeDep
  /\ navMode' = c.navMode /\ settingsPage' = c.settingsPage
  /\ spBusy' = c.spBusy /\ progress' = c.progress /\ report' = c.report
  /\ eta' = c.eta /\ spError' = c.spError /\ startRef' = c.startRef
  /\ rSpBusy' = c.rSpBusy
  /\ rNavMode' = c.rNavMode /\ rSettingsPage' = c.rSettingsPage
  /\ includeLlm' = c.includeLlm /\ llmIds' = c.llmIds
  /\ rIncludeLlm' = c.rIncludeLlm /\ rLlmIds' = c.rLlmIds
  /\ procs' = c.procs

NoClosure == [busy |-> FALSE, over |-> FALSE]
NoInterval == [period |-> 0, busy |-> FALSE, over |-> FALSE]

Idle ==
  [op |-> "idle", pc |-> "idle", x |-> 0, y |-> 0, auto |-> TRUE, mode |-> HvH,
   viaStep |-> FALSE, cl |-> NoClosure,
   applied |-> NoSnap,   \* the last snapshot this invocation passed to setGame
   mm |-> NoSnap,        \* the snapshot make_move returned to it
   ai |-> 0,             \* ai_move calls it issued
   llmIds |-> << >>,     \* the llmIds argument it passed to start_self_play
   force |-> FALSE,      \* requestAiMove's argument force
   ratings |-> 0,        \* times it invoked onRatingsChanged
   mine |-> FALSE]       \* the current game was set by this invocation

NoEv == [k |-> "none", x |-> 0, y |-> 0, op |-> "none", cl |-> NoClosure]

\* a useState setter: an update that changes nothing schedules no render
Set(c, f, v) == IF c[f] = v THEN c ELSE [c EXCEPT ![f] = v, !.dirty = TRUE]

\* setGame(snapshot) by the invocation in slot p: a new object, always a change
SetGame(c, p, snap) ==
  [c EXCEPT !.game = snap, !.dirty = TRUE,
            !.procs = [q \in Slots |->
                         IF q = p THEN [c.procs[q] EXCEPT !.applied = snap, !.mine = TRUE]
                         ELSE [c.procs[q] EXCEPT !.mine = FALSE]]]

Free(c) == {p \in Slots : c.procs[p].op = "idle"}

\* a new asynchronous invocation takes the lowest free slot
Alloc(c, rec) ==
  IF Free(c) = {} THEN [c EXCEPT !.overflow = TRUE]
  ELSE LET p == CHOOSE q \in Free(c) : \A r \in Free(c) : q <= r
       IN [c EXCEPT !.procs[p] = rec]

Return(c, p) == [c EXCEPT !.procs[p] = Idle]

\* the closure of the callbacks created by the last committed render
Closure(c) == [busy |-> c.rBusy, over |-> c.rGame.result # NULL]

Sat(n) == IF n >= 2 THEN 2 ELSE n

\* ------------------------------------------------------------- useGame
\* faulty variants of definitions below, which the claims tell apart from them
CallFailedRetryable(c, cmd) == Set(Set(c, "error", ErrText(cmd)), "canRetryAi", TRUE)

AfterAiMoveFailedKeepBusy(c, p) ==
  Return(Set(Set(c, "error", ErrText("ai_move")), "canRetryAi", TRUE), p)

MovePreconditionAnyCell(c, x, y) ==
  ~(c.rBusy \/ c.rGame.result # NULL) /\ c.rGame.canHumanMove

StartAllowedAnyResult(c) == c.rGame.mode.type = "ai_vs_ai"

stopKeepsTimer(c) == Set(c, "isPlaying", FALSE)

\* a faulty variant: the error is offered for retry
CallNoTauriRetryable(c) == Set(Set(c, "error", NoTauriText), "canRetryAi", TRUE)

\* call(): the three ways a gateway call ends
CallNoTauri(c) == Set(Set(c, "error", NoTauriText), "canRetryAi", FALSE)

CallOk(c) == Set(Set(c, "error", NULL), "canRetryAi", FALSE)

CallFailed(c, cmd) == Set(Set(c, "error", ErrText(cmd)), "canRetryAi", cmd = "ai_move")

\* a faulty variant: the message goes and the retry stays
clearErrorKeepsRetry(c) == Set(c, "error", NULL)

\* clearError(), the banner's Dismiss button
clearError(c) == Set(Set(c, "error", NULL), "canRetryAi", FALSE)

\* playStoneSound(): the Web Audio calls either all succeed or one of them throws
playStoneSound == {"ok", "throws"}

\* makeMove's early returns, on the values its closure captured
MovePrecondition(c, x, y) ==
  /\ ~(c.rBusy \/ c.rGame.result # NULL)
  /\ c.rGame.canHumanMove
  /\ c.rGame.board[y * c.rGame.boardSize + x] = NULL

\* makeMove up to its first await
makeMove(c, x, y) ==
  IF ~MovePrecondition(c, x, y) THEN c
  ELSE LET c1 == Set(c, "busy", TRUE)
           rec == [Idle EXCEPT !.op = "makeMove", !.x = x, !.y = y]
       IN IF isTauri THEN Alloc(c1, [rec EXCEPT !.pc = "make_move"])
          ELSE Alloc(CallNoTauri(c1), [rec EXCEPT !.pc = "no_tauri"])

\* whether makeMove follows a successful make_move with ai_move
ReplyOwed(snapshot, autoTriggerAi) ==
  /\ snapshot.result = NULL
  /\ autoTriggerAi
  /\ snapshot.mode.type = "human_vs_ai"
  /\ ~snapshot.canHumanMove

\* requestAiMove's early return, on the values its closure captured
AiPrecondition(cl, force) == ~(cl.busy \/ (~force /\ cl.over))

\* requestAiMove up to its first await
requestAiMove(c, cl, force, viaStep) ==
  IF ~AiPrecondition(cl, force) THEN c
  ELSE LET c1 == Set(c, "busy", TRUE)
           rec == [Idle EXCEPT !.op = "requestAiMove", !.viaStep = viaStep,
                               !.force = force]
       IN IF isTauri THEN Alloc(c1, [rec EXCEPT !.pc = "ai_move", !.ai = 1])
          ELSE Alloc(CallNoTauri(c1), [rec EXCEPT !.pc = "no_tauri"])

\* the end of an invocation: setBusy(false) and, for one made through step(),
\* step's finally block
Finish(c, p) ==
  LET c1 == Set(c, "busy", FALSE)
      c2 == IF c.procs[p].viaStep THEN [c1 EXCEPT !.steppingRef = FALSE] ELSE c1
  IN Return(c2, p)

\* an invocation that ends by an exception: setBusy(false) is not reached; step's
\* finally block still runs
Throw(c, p) ==
  Return(IF c.procs[p].viaStep THEN [c EXCEPT !.steppingRef = FALSE] ELSE c, p)

\* makeMove after make_move failed (call returned null)
AfterMakeMoveFailed(c, p) == Finish(CallFailed(c, "make_move"), p)

\* makeMove after make_move returned snapshot
AfterMakeMove(c, p, snapshot, sound) ==
  LET c2 == SetGame(CallOk(c), p, snapshot)
  IN IF sound = "throws" THEN Throw(c2, p)
     ELSE IF ReplyOwed(snapshot, c.procs[p].auto)
       THEN [c2 EXCEPT !.procs[p].pc = "ai_move", !.procs[p].ai = @ + 1]
     ELSE IF snapshot.result # NULL
       THEN [c2 EXCEPT !.procs[p].pc = "ratings", !.procs[p].ratings = @ + 1]
     ELSE Finish(c2, p)

\* makeMove or requestAiMove after ai_move failed
AfterAiMoveFailed(c, p) == Finish(CallFailed(c, "ai_move"), p)

\* makeMove or requestAiMove after ai_move returned snapshot
AfterAiMove(c, p, snapshot, sound) ==
  LET c1 == SetGame(CallOk(c), p, snapshot)
  IN IF sound = "throws" THEN Throw(c1, p)
     ELSE IF snapshot.result # NULL
       THEN [c1 EXCEPT !.procs[p].pc = "ratings", !.procs[p].ratings = @ + 1]
     ELSE Finish(c1, p)

\* refreshRatings() resolved (it never rejects): setRatings re-renders
AfterRatings(c, p) == Finish([c EXCEPT !.dirty = TRUE], p)

\* a call that found no Tauri host returned null
AfterNoTauri(c, p) == Finish(c, p)

\* saveGame(path): one save_game call, no guard, no busy flag, the result unused
saveGame(c) ==
  LET rec == [Idle EXCEPT !.op = "saveGame"]
  IN IF isTauri THEN Alloc(c, [rec EXCEPT !.pc = "save_game"])
     ELSE Alloc(CallNoTauri(c), [rec EXCEPT !.pc = "no_tauri"])

AfterSaveGame(c, p) == Return(CallOk(c), p)

AfterSaveGameFailed(c, p) == Return(CallFailed(c, "save_game"), p)

\* ------------------------------------------------------------- useAutoPlay
SPEED_INTERVALS(s) ==
  CASE s = "slow" -> 2000 [] s = "medium" -> 1000 [] OTHER -> 500

Speeds == {"slow", "medium", "fast"}

clearAutoPlay(c) ==
  IF c.intervalRef # NoInterval
    THEN [c EXCEPT !.intervals = @ \ {c.intervalRef}, !.intervalRef = NoInterval]
  ELSE c

\* faulty variants of step, stop and the mode effect
stepNoLatch(c, cl) ==
  IF cl.over THEN c
  ELSE LET c1 == [c EXCEPT !.steppingRef = TRUE]
           c2 == requestAiMove(c1, cl, FALSE, TRUE)
       IN IF c2.procs = c1.procs THEN [c2 EXCEPT !.steppingRef = FALSE] ELSE c2

stopAborts(c) ==
  LET c1 == clearAutoPlay(Set(c, "isPlaying", FALSE))
  IN [c1 EXCEPT !.steppingRef = FALSE,
                !.procs = [p \in Slots |-> IF c.procs[p].viaStep THEN Idle ELSE c.procs[p]]]

ModeEffectKeepsPlaying(c) ==
  [c EXCEPT !.modeDep = (c.rGame.mode.type = "ai_vs_ai")]

\* step(), with onStep = () => requestAiMove(refreshRatings) of the same render;
\* an onStep that returned at its precondition resolves at once, and the finally
\* block clears the latch
step(c, cl) ==
  IF c.steppingRef \/ cl.over THEN c
  ELSE LET c1 == [c EXCEPT !.steppingRef = TRUE]
           c2 == requestAiMove(c1, cl, FALSE, TRUE)
       IN IF c2.procs = c1.procs THEN [c2 EXCEPT !.steppingRef = FALSE] ELSE c2

StartAllowed(c) == c.rGame.mode.type = "ai_vs_ai" /\ c.rGame.result = NULL

start(c) ==
  IF ~StartAllowed(c) THEN c
  ELSE Set(c, "isPlaying", TRUE)

stop(c) == clearAutoPlay(Set(c, "isPlaying", FALSE))

\* the interval effect: cleanup of its last run, then its body
IntervalEffect(c) ==
  LET c0 == IF c.hasCleanup THEN clearAutoPlay(c) ELSE c
      cl == Closure(c)
      isAiVsAi == c.rGame.mode.type = "ai_vs_ai"
  IN IF ~c.rIsPlaying \/ cl.over \/ ~isAiVsAi
       THEN LET c1 == clearAutoPlay(c0)
                c2 == IF cl.over THEN Set(c1, "isPlaying", FALSE) ELSE c1
            IN [c2 EXCEPT !.hasCleanup = FALSE]
     ELSE LET c1 == step(c0, cl)
              h == [period |-> SPEED_INTERVALS(c.rSpeed), busy |-> cl.busy,
                    over |-> cl.over]
          IN [c1 EXCEPT !.intervalRef = h, !.intervals = @ \cup {h},
                        !.hasCleanup = TRUE]

\* the mode effect: runs when isAiVsAi changed
ModeEffect(c) ==
  LET isAiVsAi == c.rGame.mode.type = "ai_vs_ai"
  IN IF c.modeDep = isAiVsAi THEN c
     ELSE LET c1 == IF ~isAiVsAi THEN clearAutoPlay(Set(c, "isPlaying", FALSE)) ELSE c
          IN [c1 EXCEPT !.modeDep = isAiVsAi]

\* ------------------------------------------------------------- useNavigation
SettingsPages == {"home", "profile", "ai", "data", "users"}

goToWelcome(c) == Set(c, "navMode", "welcome")

goToPlay(c) == Set(c, "navMode", "play")

\* a faulty variant: the page of the last visit is kept
goToSettingsKeepsPage(c) == Set(c, "navMode", "settings")

goToSettings(c) == Set(Set(c, "navMode", "settings"), "settingsPage", "home")

goToSettingsPage(c, page) == Set(Set(c, "navMode", "settings"), "settingsPage", page)

\* goBack reads the mode and settingsPage captured by the render that created it
goBack(c) ==
  IF c.rNavMode = "settings" /\ c.rSettingsPage # "home" THEN Set(c, "settingsPage", "home")
  ELSE IF c.rNavMode = "settings" THEN Set(c, "navMode", "welcome")
  ELSE IF c.rNavMode = "play" THEN Set(c, "navMode", "welcome")
  ELSE c

\* ------------------------------------------------------------- React
\* a render and its commit: the callbacks now capture the current state
RenderCommit(c) ==
  [c EXCEPT !.rGame = c.game, !.rBusy = c.busy, !.rIsPlaying = c.isPlaying,
            !.rSpeed = c.speed, !.rSpBusy = c.spBusy,
            !.rNavMode = c.navMode, !.rSettingsPage = c.settingsPage,
            !.rIncludeLlm = c.includeLlm, !.rLlmIds = c.llmIds, !.dirty = FALSE,
            !.effectPending = TRUE]

\* the passive effects of the last commit, in the order the hooks declare them;
\* step is a new function on every render of App (onStep is an inline arrow), so
\* the interval effect's dependencies change with every commit
PassiveEffects(c) == [ModeEffect(IntervalEffect(c)) EXCEPT !.effectPending = FALSE]

\* the synchronous flush that ends a turn in which handlers updated state
RECURSIVE Settle(_, _)
Settle(c, n) ==
  LET c1 == IF c.effectPending THEN PassiveEffects(c) ELSE c
  IN IF c1.dirty /\ n > 0 THEN Settle(RenderCommit(c1), n - 1) ELSE c1

FlushSync(c) == IF c.dirty THEN Settle(c, MaxRenders) ELSE c

\* ------------------------------------------------------------- App
\* handleNewGame up to its first await (newGame's call)
handleNewGame(c, mode) ==
  LET rec == [Idle EXCEPT !.op = "handleNewGame", !.mode = mode, !.cl = Closure(c)]
  IN IF isTauri THEN Alloc(c, [rec EXCEPT !.pc = "new_game"])
     ELSE Alloc(CallNoTauri(c), [rec EXCEPT !.pc = "no_tauri"])

\* newGame returned without a snapshot; handleNewGame goes on to refreshRatings
AfterNewGameFailed(c, p) ==
  [CallFailed(c, "new_game") EXCEPT !.procs[p].pc = "ratings"]

AfterNewGame(c, p, snapshot) ==
  [SetGame(CallOk(c), p, snapshot) EXCEPT !.procs[p].pc = "ratings"]

\* handleNewGame after refreshRatings: goToPlay, and the timer of the first AI move
AfterNewGameRatings(c, p) ==
  LET c1 == goToPlay([c EXCEPT !.dirty = TRUE])
      m == c.procs[p].mode
      c2 == IF m.type = "human_vs_ai" /\ m.humanColor = "W"
              THEN [c1 EXCEPT !.timeouts = @ \cup {c.procs[p].cl}]
            ELSE c1
  IN Return(c2, p)

\* ------------------------------------------------------------- useSelfPlay
\* a JavaScript number: a ratio n/d of integers (d > 0), or one of the non-finite
\* values
Num(n, d) == [kind |-> "num", n |-> n, d |-> d]
NaN == [kind |-> "NaN", n |-> 0, d |-> 1]
Infinity == [kind |-> "Infinity", n |-> 1, d |-> 1]
NegInfinity == [kind |-> "-Infinity", n |-> -1, d |-> 1]

isFinite(v) == v.kind = "num"

\* String(n).padStart(2, '0')
padStart2(str) == IF Len(str) < 2 THEN "0" \o str ELSE str

\* faulty variants of formatDuration and of the progress listener
formatDurationLateHour(v) ==
  IF ~isFinite(v) \/ v.n <= 0 THEN "0s"
  ELSE LET mins == v.n \div (60 * v.d)
           secs == (v.n % (60 * v.d)) \div v.d
       IN IF mins > 60
            THEN ToString(mins \div 60) \o "h " \o padStart2(ToString(mins % 60)) \o "m"
          ELSE IF mins > 0
            THEN ToString(mins) \o "m " \o padStart2(ToString(secs)) \o "s"
          ELSE ToString(secs) \o "s"

formatDuration(v) ==
  IF ~isFinite(v) \/ v.n <= 0 THEN "0s"
  ELSE LET mins == v.n \div (60 * v.d)               \* Math.floor(seconds / 60)
           secs == (v.n % (60 * v.d)) \div v.d        \* Math.floor(seconds % 60)
       IN IF mins >= 60
            THEN ToString(mins \div 60) \o "h " \o padStart2(ToString(mins % 60)) \o "m"
          ELSE IF mins > 0
            THEN ToString(mins) \o "m " \o padStart2(ToString(secs)) \o "s"
          ELSE ToString(secs) \o "s"

\* "no progress", "no report": the null of the two state slots
NoProgress == [completed |-> -1, total |-> -1]
NoReport == [completedGames |-> -1, stopped |-> FALSE]

\* the instants at which the clock is read, in milliseconds
Epoch == 1000
Instants == {Epoch, Epoch + 1500, Epoch + 59999, Epoch + 60000, Epoch + 3600000}

\* the payloads of the backend's events
ProgressPayloads == [completed : 0..MaxTotal, total : 0..MaxTotal]
ReportPayloads == [completedGames : {MaxTotal}, stopped : BOOLEAN]

\* what start_self_play may return: started, or one of the two "not started"
StartResults == {"true", "false", NULL}

onProgressKeepsEta(c, payload) ==
  LET c1 == [c EXCEPT !.progress = payload, !.dirty = TRUE]
      c2 == IF c1.startRef = 0 THEN [c1 EXCEPT !.startRef = now] ELSE c1
  IN IF payload.completed > 0 /\ payload.total > 0
       THEN LET elapsed == Num(now - c2.startRef, 1000)
                remaining == Num((payload.total - payload.completed) * elapsed.n,
                                 elapsed.d * payload.completed)
            IN Set(c2, "eta", formatDuration(remaining))
     ELSE c2

onDoneTwice(c, payload) ==
  LET c1 == [c EXCEPT !.report = payload, !.dirty = TRUE]
      c2 == Set(Set(Set(c1, "spBusy", FALSE), "progress", NoProgress), "eta", NULL)
      rec == [Idle EXCEPT !.op = "selfPlay.done", !.pc = "ratings"]
  IN Alloc(Alloc([c2 EXCEPT !.startRef = 0], rec), rec)

\* a faulty variant: start() takes the move pipeline's busy flag
selfPlayStartSharedGuard(c) ==
  IF c.rSpBusy THEN c
  ELSE LET c1 == Set(Set(Set(c, "spBusy", TRUE), "report", NoReport), "progress", NoProgress)
           c2 == Set(Set([c1 EXCEPT !.startRef = now], "eta", NULL), "spError", NULL)
       IN Alloc(Set(c2, "busy", TRUE),
                [Idle EXCEPT !.op = "selfPlay.start", !.pc = "start_self_play"])

\* a faulty variant: the report of the previous run is left standing
selfPlayStartKeepsReport(c) ==
  IF c.rSpBusy THEN c
  ELSE LET c1 == Set(Set(c, "spBusy", TRUE), "progress", NoProgress)
           c2 == Set(Set([c1 EXCEPT !.startRef = now], "eta", NULL), "spError", NULL)
       IN Alloc(c2, [Idle EXCEPT !.op = "selfPlay.start", !.pc = "start_self_play",
                                 !.llmIds = IF c.rIncludeLlm THEN c.rLlmIds ELSE << >>])

\* start() up to its await; includeLlm and llmIds are those of its closure
selfPlayStart(c) ==
  IF c.rSpBusy THEN c
  ELSE LET c1 == Set(Set(Set(c, "spBusy", TRUE), "report", NoReport), "progress", NoProgress)
           c2 == Set(Set([c1 EXCEPT !.startRef = now], "eta", NULL), "spError", NULL)
       IN Alloc(c2, [Idle EXCEPT !.op = "selfPlay.start", !.pc = "start_self_play",
                                 !.llmIds = IF c.rIncludeLlm THEN c.rLlmIds ELSE << >>])

\* start() after invoke returned result
AfterStartSelfPlay(c, p, result) ==
  IF result = NULL THEN Return([Set(c, "spBusy", FALSE) EXCEPT !.startRef = 0], p)
  ELSE Return(c, p)

\* start() after invoke rejected
AfterStartSelfPlayFailed(c, p) ==
  LET c1 == Set(Set(c, "spError", ErrText("start_self_play")), "spBusy", FALSE)
  IN Return([c1 EXCEPT !.startRef = 0], p)

\* the self_play_progress listener
onProgress(c, payload) ==
  LET c1 == [c EXCEPT !.progress = payload, !.dirty = TRUE]
      c2 == IF c1.startRef = 0 THEN [c1 EXCEPT !.startRef = now] ELSE c1
  IN IF payload.completed > 0 /\ payload.total > 0
       THEN LET elapsed == Num(now - c2.startRef, 1000)
                remaining == Num((payload.total - payload.completed) * elapsed.n,
                                 elapsed.d * payload.completed)
            IN Set(c2, "eta", formatDuration(remaining))
     ELSE Set(c2, "eta", NULL)

\* the self_play_done listener, up to its await of onComplete()
onDone(c, payload) ==
  LET c1 == [c EXCEPT !.report = payload, !.dirty = TRUE]
      c2 == Set(Set(Set(c1, "spBusy", FALSE), "progress", NoProgress), "eta", NULL)
  IN Alloc([c2 EXCEPT !.startRef = 0], [Idle EXCEPT !.op = "selfPlay.done", !.pc = "ratings"])

\* onComplete() (refreshRatings) resolved: setRatings re-renders
AfterOnComplete(c, p) == Return([c EXCEPT !.dirty = TRUE], p)

\* the messages the backend sends with self_play_error
ErrorPayloads == {"self-play aborted"}

\* the self_play_error listener
onError(c, message) ==
  LET c1 == Set(Set(Set(c, "spError", message), "spBusy", FALSE), "progress", NoProgress)
  IN Set([c1 EXCEPT !.startRef = 0], "eta", NULL)

\* stop() up to its await
selfPlayStop(c) ==
  IF ~c.rSpBusy THEN c
  ELSE Alloc(c, [Idle EXCEPT !.op = "selfPlay.stop", !.pc = "stop_self_play"])

\* stop() after invoke returned, and after it rejected
AfterStopSelfPlay(c, p) == Return(c, p)

AfterStopSelfPlayFailed(c, p) == Return(Set(c, "spError", ErrText("stop_self_play")), p)

\* the profiles of a ratings snapshot: llm is the optional LlmConfig, reduced to
\* its apiKeySet ("absent": no LlmConfig)
Profile(id, kind, llm) == [id |-> id, kind |-> kind, llm |-> llm]

ProfileLists ==
  << << >>,
     <<Profile("a", "llm", "key")>>,
     <<Profile("h", "heuristic", "key"), Profile("b", "llm", "noKey"),
       Profile("a", "llm", "key")>>,
     <<Profile("c", "llm", "key"), Profile("d", "llm", "absent"),
       Profile("a", "llm", "key"), Profile("h", "heuristic", "absent")>> >>

ToggledIds == {"b"}

\* .map((p) => p.id); .filter is SelectSeq
Ids(profiles) == [i \in 1..Len(profiles) |-> profiles[i].id]

\* a faulty variant: the key is not asked for
toggleIncludeLlmAnyKey(c, checked, profiles) ==
  LET IsLlm(q) == q.kind = "llm"
      c1 == Set(c, "includeLlm", checked)
  IN [c1 EXCEPT !.llmIds = IF checked THEN Ids(SelectSeq(profiles, IsLlm)) ELSE << >>,
                !.dirty = TRUE]

toggleIncludeLlm(c, checked, profiles) ==
  LET IsDefault(q) == q.kind = "llm" /\ q.llm = "key"
      c1 == Set(c, "includeLlm", checked)
  IN [c1 EXCEPT !.llmIds = IF checked THEN Ids(SelectSeq(profiles, IsDefault)) ELSE << >>,
                !.dirty = TRUE]

\* toggleLlmId: the updater returns prev itself when the id is already there
toggleLlmId(c, id, checked) ==
  LET Others(item) == item # id
  IN IF checked
       THEN IF \E i \in 1..Len(c.llmIds) : c.llmIds[i] = id THEN c
            ELSE [c EXCEPT !.llmIds = Append(@, id), !.dirty = TRUE]
     ELSE [c EXCEPT !.llmIds = SelectSeq(@, Others), !.dirty = TRUE]

\* what the error banner of App shows: gameError || selfPlay.error
DisplayedError(c) == IF c.error # NULL THEN c.error ELSE c.spError

\* ------------------------------------------------------------- specification
\* useSelfPlay after its first render; the clock stands at its first instant and
\* formatDuration has not been called
InitSelfPlay ==
  /\ spBusy = FALSE /\ progress = NoProgress /\ report = NoReport
  /\ eta = NULL /\ spError = NULL /\ startRef = 0 /\ rSpBusy = FALSE
  /\ includeLlm = FALSE /\ llmIds = << >> /\ rIncludeLlm = FALSE /\ rLlmIds = << >>
  /\ now = Epoch /\ jobRunning = FALSE
  /\ seconds = NaN /\ formatted = NULL

Init ==
  /\ eng = defaultSnapshot
  /\ isTauri \in BOOLEAN
  /\ game = defaultSnapshot /\ busy = FALSE /\ error = NULL /\ canRetryAi = FALSE
  /\ isPlaying = FALSE /\ speed = "medium"
  /\ intervalRef = NoInterval /\ steppingRef = FALSE
  /\ intervals = {} /\ timeouts = {}
  /\ rGame = defaultSnapshot /\ rBusy = FALSE /\ rIsPlaying = FALSE
  /\ rSpeed = "medium" /\ dirty = FALSE /\ effectPending = FALSE
  /\ hasCleanup = FALSE /\ modeDep = FALSE
  /\ navMode = "welcome" /\ settingsPage = "home"
  /\ rNavMode = "welcome" /\ rSettingsPage = "home"
  /\ InitSelfPlay
  /\ procs = [p \in Slots |-> Idle]
  /\ stopped = FALSE /\ autoAfterStop = 0 /\ tickAfterStop = 0 /\ wasPlaying = FALSE
  /\ lastSurfaced = NULL
  /\ games = 0
  /\ turn = 0
  /\ ev = NoEv

\* the application inside its Tauri host
InitHosted == Init /\ isTauri = TRUE

\* the application in a plain browser: no '__TAURI__' in window
InitBrowser == Init /\ isTauri = FALSE

\* history of the auto-play steps since stop(): those in flight when it was called
\* and those dispatched later by the scheduler (a tick or the interval effect)
NewSteps(c) == Cardinality({p \in Slots : c.procs[p].viaStep /\ ~procs[p].viaStep})

\* which hook's error slot was written last (a repeated message counts as written)
GameErrorSteps == {"mm_failed", "ai_failed", "ng_failed", "save_failed"}
SelfPlayErrorSteps == {"sp_rejected", "sp_error", "sp_stop_rejected"}

Surfaced(k, c) ==
  IF c.spError # NULL /\ (k \in SelfPlayErrorSteps \/ c.spError # spError) THEN "selfPlay"
  ELSE IF c.error # NULL /\ (k \in GameErrorSteps \/ c.error # error) THEN "game"
  ELSE lastSurfaced

HistoryOfSteps(k, c) ==
  LET inFlight == Cardinality({p \in Slots : procs[p].viaStep})
  IN CASE k = "stop" ->
            /\ stopped' = TRUE
            /\ autoAfterStop' = Sat(inFlight + NewSteps(c))
            /\ tickAfterStop' = 0
            /\ wasPlaying' = (isPlaying /\ rIsPlaying)
       [] k = "start" ->
            /\ stopped' = FALSE /\ autoAfterStop' = 0 /\ tickAfterStop' = 0
            /\ wasPlaying' = FALSE
       [] k = "step" -> UNCHANGED hvars
       [] OTHER ->
            /\ stopped' = stopped
            /\ autoAfterStop' = IF stopped THEN Sat(autoAfterStop + NewSteps(c))
                                ELSE autoAfterStop
            /\ tickAfterStop' = IF stopped /\ k = "tick" THEN Sat(tickAfterStop + NewSteps(c))
                                ELSE tickAfterStop
            /\ wasPlaying' = wasPlaying

History(k, c) ==
  /\ lastSurfaced' = Surfaced(k, c)
  /\ HistoryOfSteps(k, c)

\* A handler called from a user event. Several may be called back-to-back in one
\* turn; the turn then ends with FlushSync before anything else runs. A call that
\* returned at its precondition leaves the turn as it found it.
Handler(c, label) ==
  /\ FlushSync(c).overflow = FALSE
  /\ LET d == IF c # S /\ turn + 1 >= MaxBurst THEN FlushSync(c) ELSE c
     IN Commit(d) /\ History(label.k, d)
  /\ turn' = IF c = S THEN turn ELSE IF turn + 1 >= MaxBurst THEN 0 ELSE turn + 1
  /\ ev' = [label EXCEPT !.cl = Closure(S)]
  /\ UNCHANGED <<eng, isTauri, tvars>>

\* a task of the event loop other than a user event
Task(c, label) ==
  /\ turn = 0
  /\ Commit(c) /\ History(label.k, c)
  /\ turn' = 0
  /\ ev' = label
  /\ UNCHANGED <<isTauri, games>>

\* a promise continuation, a timer callback or a scheduled render
Async(c, label) == Task(c, label) /\ UNCHANGED tvars

HandleMove(x, y) ==
  /\ Handler(makeMove(S, x, y), [NoEv EXCEPT !.k = "makeMove", !.x = x, !.y = y])
  /\ UNCHANGED games

HandleAiMove ==
  /\ Handler(requestAiMove(S, Closure(S), FALSE, FALSE), [NoEv EXCEPT !.k = "requestAiMove"])
  /\ UNCHANGED games

HandleNewGame(mode) ==
  /\ games < MaxGames
  /\ games' = games + 1
  /\ Handler(handleNewGame(S, mode), [NoEv EXCEPT !.k = "handleNewGame"])

AutoPlayStep ==
  /\ Handler(step(S, Closure(S)), [NoEv EXCEPT !.k = "step"])
  /\ UNCHANGED games

AutoPlayStart ==
  /\ Handler(start(S), [NoEv EXCEPT !.k = "start"])
  /\ UNCHANGED games

AutoPlayStop ==
  /\ Handler(stop(S), [NoEv EXCEPT !.k = "stop"])
  /\ UNCHANGED games

AutoPlaySetSpeed(s) ==
  /\ Handler(Set(S, "speed", s), [NoEv EXCEPT !.k = "setSpeed"])
  /\ UNCHANGED games

EndTurn ==
  /\ turn > 0
  /\ Commit(FlushSync(S)) /\ History("flush", FlushSync(S))
  /\ turn' = 0
  /\ ev' = [NoEv EXCEPT !.k = "flush"]
  /\ UNCHANGED <<eng, isTauri, games, tvars>>

MakeMoveRejected(p) ==
  /\ procs[p].op = "makeMove" /\ procs[p].pc = "make_move"
  /\ Async(AfterMakeMoveFailed(S, p), [NoEv EXCEPT !.k = "mm_failed", !.op = "makeMove"])
  /\ eng' = eng

MakeMoveResolved(p) ==
  /\ procs[p].op = "makeMove" /\ procs[p].pc = "make_move"
  /\ \E snapshot \in EngineMakeMove(eng, procs[p].x, procs[p].y), sound \in playStoneSound :
       /\ eng' = snapshot
       /\ Async(AfterMakeMove([S EXCEPT !.procs[p].mm = snapshot], p, snapshot, sound),
                [NoEv EXCEPT !.k = IF sound = "throws" THEN "mm_threw" ELSE "mm_ok",
                             !.op = "makeMove"])

AiMoveRejected(p) ==
  /\ procs[p].pc = "ai_move"
  /\ Async(AfterAiMoveFailed(S, p), [NoEv EXCEPT !.k = "ai_failed", !.op = procs[p].op])
  /\ eng' = eng

AiMoveResolved(p) ==
  /\ procs[p].pc = "ai_move"
  /\ \E snapshot \in EngineAiMove(eng), sound \in playStoneSound :
       /\ eng' = snapshot
       /\ Async(AfterAiMove(S, p, snapshot, sound),
                [NoEv EXCEPT !.k = IF sound = "throws" THEN "ai_threw" ELSE "ai_ok",
                             !.op = procs[p].op])

RatingsRefreshed(p) ==
  /\ procs[p].op \in {"makeMove", "requestAiMove"} /\ procs[p].pc = "ratings"
  /\ Async(AfterRatings(S, p), [NoEv EXCEPT !.k = "ratings", !.op = procs[p].op])
  /\ eng' = eng

NoTauriResolved(p) ==
  /\ procs[p].pc = "no_tauri"
  /\ Async(IF procs[p].op = "handleNewGame" THEN AfterNewGameRatings(S, p)
           ELSE IF procs[p].op = "saveGame" THEN Return(S, p)
           ELSE AfterNoTauri(S, p),
           [NoEv EXCEPT !.k = "no_tauri", !.op = procs[p].op])
  /\ eng' = eng

NewGameRejected(p) ==
  /\ procs[p].pc = "new_game"
  /\ Async(AfterNewGameFailed(S, p), [NoEv EXCEPT !.k = "ng_failed"])
  /\ eng' = eng

NewGameResolved(p) ==
  /\ procs[p].pc = "new_game"
  /\ eng' = EngineNewGame(procs[p].mode)
  /\ Async(AfterNewGame(S, p, EngineNewGame(procs[p].mode)),
           [NoEv EXCEPT !.k = "ng_ok"])

NewGameRatingsRefreshed(p) ==
  /\ procs[p].op = "handleNewGame" /\ procs[p].pc = "ratings"
  /\ Async(AfterNewGameRatings(S, p), [NoEv EXCEPT !.k = "ng_done"])
  /\ eng' = eng

\* the 300 ms timer of handleNewGame: requestAiMove(refreshRatings, true)
\* handleSave once the file dialog has returned a path
SaveGame ==
  /\ Async(saveGame(S), [NoEv EXCEPT !.k = "saveGame"])
  /\ eng' = eng

SaveGameResolved(p) ==
  /\ procs[p].pc = "save_game"
  /\ Async(AfterSaveGame(S, p), [NoEv EXCEPT !.k = "save_ok"])
  /\ eng' = eng

SaveGameRejected(p) ==
  /\ procs[p].pc = "save_game"
  /\ Async(AfterSaveGameFailed(S, p), [NoEv EXCEPT !.k = "save_failed"])
  /\ eng' = eng

TimeoutFires ==
  \E cl \in timeouts :
    LET c0 == [S EXCEPT !.timeouts = @ \ {cl}]
        c == requestAiMove(c0, cl, TRUE, FALSE)
    IN /\ Async(c, [NoEv EXCEPT !.k = "timeout", !.cl = cl])
       /\ eng' = eng

\* a tick of a live interval: doStep of the render that created it
IntervalTick ==
  \E h \in intervals :
    LET c == step(S, [busy |-> h.busy, over |-> h.over])
    IN /\ Async(c, [NoEv EXCEPT !.k = "tick", !.cl = [busy |-> h.busy, over |-> h.over]])
       /\ eng' = eng

Render ==
  /\ dirty /\ ~effectPending
  /\ Async(RenderCommit(S), [NoEv EXCEPT !.k = "render"])
  /\ eng' = eng

RunEffects ==
  /\ effectPending
  /\ Async(PassiveEffects(S), [NoEv EXCEPT !.k = "effects"])
  /\ eng' = eng

SelfPlayStart ==
  /\ Handler(selfPlayStart(S), [NoEv EXCEPT !.k = "sp_start"])
  /\ UNCHANGED games

StartSelfPlayResolved(p) ==
  /\ procs[p].pc = "start_self_play"
  /\ \E result \in StartResults :
       /\ Task(AfterStartSelfPlay(S, p, result),
               [NoEv EXCEPT !.k = CASE result = "true" -> "sp_started"
                                    [] result = "false" -> "sp_false"
                                    [] OTHER -> "sp_null"])
       /\ jobRunning' = (jobRunning \/ result = "true")
  /\ UNCHANGED <<eng, now, seconds, formatted>>

StartSelfPlayRejected(p) ==
  /\ procs[p].pc = "start_self_play"
  /\ Async(AfterStartSelfPlayFailed(S, p), [NoEv EXCEPT !.k = "sp_rejected"])
  /\ eng' = eng

\* the running job emits a progress event
SelfPlayProgressOf(payloads) ==
  /\ jobRunning
  /\ \E payload \in payloads :
       Async(onProgress(S, payload),
             [NoEv EXCEPT !.k = "sp_progress", !.x = payload.completed, !.y = payload.total])
  /\ eng' = eng

SelfPlayProgress == SelfPlayProgressOf(ProgressPayloads)

\* ... halfway through the run
SelfPlayHalfway == SelfPlayProgressOf({[completed |-> 1, total |-> 2]})

\* the running job ends and emits its report
SelfPlayDone ==
  /\ jobRunning
  /\ \E payload \in ReportPayloads :
       Task(onDone(S, payload),
            [NoEv EXCEPT !.k = "sp_done", !.x = payload.completedGames,
                         !.y = IF payload.stopped THEN 1 ELSE 0])
  /\ jobRunning' = FALSE
  /\ UNCHANGED <<eng, now, seconds, formatted>>

\* the running job fails and emits its message
SelfPlayError ==
  /\ jobRunning
  /\ \E message \in ErrorPayloads :
       Task(onError(S, message), [NoEv EXCEPT !.k = "sp_error"])
  /\ jobRunning' = FALSE
  /\ UNCHANGED <<eng, now, seconds, formatted>>

SelfPlayStop ==
  /\ Handler(selfPlayStop(S), [NoEv EXCEPT !.k = "sp_stop"])
  /\ UNCHANGED games

StopSelfPlayResolved(p) ==
  /\ procs[p].op = "selfPlay.stop" /\ procs[p].pc = "stop_self_play"
  /\ Async(AfterStopSelfPlay(S, p), [NoEv EXCEPT !.k = "sp_stopped"])
  /\ eng' = eng

StopSelfPlayRejected(p) ==
  /\ procs[p].op = "selfPlay.stop" /\ procs[p].pc = "stop_self_play"
  /\ Async(AfterStopSelfPlayFailed(S, p), [NoEv EXCEPT !.k = "sp_stop_rejected"])
  /\ eng' = eng

\* the Dismiss button, there when the banner is
Dismiss ==
  /\ DisplayedError(S) # NULL
  /\ Handler(clearError(S), [NoEv EXCEPT !.k = "clearError"])
  /\ UNCHANGED games

ToggleIncludeLlm(checked, i) ==
  /\ Handler(toggleIncludeLlm(S, checked, ProfileLists[i]),
             [NoEv EXCEPT !.k = "toggleIncludeLlm", !.x = IF checked THEN 1 ELSE 0, !.y = i])
  /\ UNCHANGED games

ToggleLlmId(id, checked) ==
  /\ Handler(toggleLlmId(S, id, checked), [NoEv EXCEPT !.k = "toggleLlmId"])
  /\ UNCHANGED games

GoToWelcome ==
  /\ Handler(goToWelcome(S), [NoEv EXCEPT !.k = "goToWelcome"])
  /\ UNCHANGED games

GoToPlay ==
  /\ Handler(goToPlay(S), [NoEv EXCEPT !.k = "goToPlay"])
  /\ UNCHANGED games

GoToSettings ==
  /\ Handler(goToSettings(S), [NoEv EXCEPT !.k = "goToSettings"])
  /\ UNCHANGED games

GoToSettingsPage(page) ==
  /\ Handler(goToSettingsPage(S, page), [NoEv EXCEPT !.k = "goToSettingsPage", !.op = page])
  /\ UNCHANGED games

GoBack ==
  /\ Handler(goBack(S), [NoEv EXCEPT !.k = "goBack"])
  /\ UNCHANGED games

OnCompleteResolved(p) ==
  /\ procs[p].op = "selfPlay.done" /\ procs[p].pc = "ratings"
  /\ Async(AfterOnComplete(S, p), [NoEv EXCEPT !.k = "sp_ratings"])
  /\ eng' = eng

\* time passes
ClockTick ==
  /\ turn = 0
  /\ \E t \in Instants : t > now /\ now' = t
  /\ ev' = [NoEv EXCEPT !.k = "clock"]
  /\ UNCHANGED <<eng, isTauri, cvars, hvars, lastSurfaced, jobRunning, seconds, formatted,
               games, turn>>

\* a call of formatDuration
DurationNumerators ==
  {-60, -1, 0, 1, 2, 59, 60, 61, 119, 120, 121, 599, 600, 3599, 3600, 3601, 3659,
   3660, 7199, 7200, 7201, 35999, 36000, 86400, 359999, 360000}
DurationDenominators == {1, 2, 7, 1000}
Durations ==
  {Num(n, d) : n \in DurationNumerators, d \in DurationDenominators}
    \cup {NaN, Infinity, NegInfinity}

FormatDuration ==
  /\ turn = 0
  /\ \E v \in Durations : seconds' = v /\ formatted' = formatDuration(v)
  /\ ev' = [NoEv EXCEPT !.k = "format"]
  /\ UNCHANGED <<eng, isTauri, cvars, hvars, lastSurfaced, now, jobRunning, games, turn>>

\* the move pipeline: the board, the AI button and the new-game dialog
MoveModes == {HvaW, HvH}
Clicks == {<<0, 0>>, <<1, 0>>}

Next ==
  \/ \E xy \in Clicks : HandleMove(xy[1], xy[2])
  \/ HandleAiMove
  \/ \E mode \in MoveModes : HandleNewGame(mode)
  \/ EndTurn
  \/ \E p \in Slots : MakeMoveRejected(p)
  \/ \E p \in Slots : MakeMoveResolved(p)
  \/ \E p \in Slots : AiMoveRejected(p)
  \/ \E p \in Slots : AiMoveResolved(p)
  \/ \E p \in Slots : RatingsRefreshed(p)
  \/ \E p \in Slots : NewGameRejected(p)
  \/ \E p \in Slots : NewGameResolved(p)
  \/ \E p \in Slots : NewGameRatingsRefreshed(p)
  \/ TimeoutFires
  \/ Render
  \/ RunEffects

Spec == InitHosted /\ [][Next]_vars

\* the auto-play scheduler: the watch controls of an AI-vs-AI game
AutoModes == {AvA}

NextAuto ==
  \/ \E mode \in AutoModes : HandleNewGame(mode)
  \/ AutoPlayStep
  \/ AutoPlayStart
  \/ AutoPlayStop
  \/ \E s \in Speeds : AutoPlaySetSpeed(s)
  \/ EndTurn
  \/ \E p \in Slots : AiMoveRejected(p)
  \/ \E p \in Slots : AiMoveResolved(p)
  \/ \E p \in Slots : RatingsRefreshed(p)
  \/ \E p \in Slots : NewGameRejected(p)
  \/ \E p \in Slots : NewGameResolved(p)
  \/ \E p \in Slots : NewGameRatingsRefreshed(p)
  \/ IntervalTick
  \/ Render
  \/ RunEffects

SpecAuto == InitHosted /\ [][NextAuto]_vars

\* the watch view: an AI-vs-AI game is on the board, the user may leave it for a
\* game of another mode
WatchModes == {HvH}

InitWatch ==
  /\ eng = EngineNewGame(AvA)
  /\ isTauri = TRUE
  /\ game = EngineNewGame(AvA) /\ busy = FALSE /\ error = NULL /\ canRetryAi = FALSE
  /\ isPlaying = FALSE /\ speed = "medium"
  /\ intervalRef = NoInterval /\ steppingRef = FALSE
  /\ intervals = {} /\ timeouts = {}
  /\ rGame = EngineNewGame(AvA) /\ rBusy = FALSE /\ rIsPlaying = FALSE
  /\ rSpeed = "medium" /\ dirty = FALSE /\ effectPending = FALSE
  /\ hasCleanup = FALSE /\ modeDep = TRUE
  /\ navMode = "play" /\ settingsPage = "home"
  /\ rNavMode = "play" /\ rSettingsPage = "home"
  /\ InitSelfPlay
  /\ procs = [p \in Slots |-> Idle]
  /\ stopped = FALSE /\ autoAfterStop = 0 /\ tickAfterStop = 0 /\ wasPlaying = FALSE
  /\ lastSurfaced = NULL
  /\ games = 0
  /\ turn = 0
  /\ ev = NoEv

NextWatch ==
  \/ \E mode \in WatchModes : HandleNewGame(mode)
  \/ AutoPlayStart
  \/ AutoPlayStop
  \/ EndTurn
  \/ \E p \in Slots : AiMoveRejected(p)
  \/ \E p \in Slots : AiMoveResolved(p)
  \/ \E p \in Slots : RatingsRefreshed(p)
  \/ \E p \in Slots : NewGameRejected(p)
  \/ \E p \in Slots : NewGameResolved(p)
  \/ \E p \in Slots : NewGameRatingsRefreshed(p)
  \/ IntervalTick
  \/ Render
  \/ RunEffects

SpecWatch == InitWatch /\ [][NextWatch]_vars

\* the self-play tracker of the settings pages
NextSelfPlay ==
  \/ SelfPlayStart
  \/ EndTurn
  \/ \E p \in Slots : StartSelfPlayResolved(p)
  \/ \E p \in Slots : StartSelfPlayRejected(p)
  \/ SelfPlayProgress
  \/ SelfPlayDone
  \/ \E p \in Slots : OnCompleteResolved(p)
  \/ ClockTick
  \/ Render
  \/ RunEffects

SpecSelfPlay == InitHosted /\ [][NextSelfPlay]_vars

\* the self-play tracker with its stop() and the job's failure
NextTracker ==
  \/ SelfPlayStart
  \/ SelfPlayStop
  \/ EndTurn
  \/ \E p \in Slots : StartSelfPlayResolved(p)
  \/ \E p \in Slots : StartSelfPlayRejected(p)
  \/ \E p \in Slots : StopSelfPlayResolved(p)
  \/ \E p \in Slots : StopSelfPlayRejected(p)
  \/ SelfPlayProgress
  \/ SelfPlayDone
  \/ SelfPlayError
  \/ \E p \in Slots : OnCompleteResolved(p)
  \/ Render
  \/ RunEffects

SpecTracker == InitHosted /\ [][NextTracker]_vars

\* the error banner: the move pipeline and the self-play tracker side by side
BannerClicks == {<<0, 0>>}

NextBanner ==
  \/ \E xy \in BannerClicks : HandleMove(xy[1], xy[2])
  \/ HandleAiMove
  \/ Dismiss
  \/ SelfPlayStart
  \/ EndTurn
  \/ \E p \in Slots : MakeMoveRejected(p)
  \/ \E p \in Slots : MakeMoveResolved(p)
  \/ \E p \in Slots : AiMoveRejected(p)
  \/ \E p \in Slots : AiMoveResolved(p)
  \/ \E p \in Slots : RatingsRefreshed(p)
  \/ \E p \in Slots : StartSelfPlayResolved(p)
  \/ \E p \in Slots : StartSelfPlayRejected(p)
  \/ SelfPlayError
  \/ Render
  \/ RunEffects

SpecBanner == InitHosted /\ [][NextBanner]_vars

\* the choice of the LLM participants of a self-play run
NextLlm ==
  \/ \E checked \in BOOLEAN, i \in 1..Len(ProfileLists) : ToggleIncludeLlm(checked, i)
  \/ \E id \in ToggledIds, checked \in BOOLEAN : ToggleLlmId(id, checked)
  \/ SelfPlayStart
  \/ EndTurn
  \/ \E p \in Slots : StartSelfPlayResolved(p)
  \/ \E p \in Slots : StartSelfPlayRejected(p)
  \/ Render
  \/ RunEffects

SpecLlm == InitHosted /\ [][NextLlm]_vars

\* navigation, with the goToPlay that ends handleNewGame
NavModes == {HvH}

NextNav ==
  \/ GoToWelcome
  \/ GoToPlay
  \/ GoToSettings
  \/ \E page \in SettingsPages : GoToSettingsPage(page)
  \/ GoBack
  \/ \E mode \in NavModes : HandleNewGame(mode)
  \/ EndTurn
  \/ \E p \in Slots : NewGameRejected(p)
  \/ \E p \in Slots : NewGameResolved(p)
  \/ \E p \in Slots : NewGameRatingsRefreshed(p)
  \/ Render
  \/ RunEffects

SpecNav == InitHosted /\ [][NextNav]_vars

\* the move pipeline without the Tauri host. call() returns without awaiting
\* anything, so what follows it runs as microtasks: after the handlers of the turn
\* and its flush, before any other task
MicrotasksDone == \A p \in Slots : procs[p].pc # "no_tauri"

InTurn == turn > 0 \/ MicrotasksDone

NextBrowser ==
  \/ InTurn /\ \E xy \in Clicks : HandleMove(xy[1], xy[2])
  \/ InTurn /\ HandleAiMove
  \/ InTurn /\ \E mode \in MoveModes : HandleNewGame(mode)
  \/ InTurn /\ Dismiss
  \/ EndTurn
  \/ \E p \in Slots : NoTauriResolved(p)
  \/ MicrotasksDone /\ TimeoutFires
  \/ MicrotasksDone /\ Render
  \/ MicrotasksDone /\ RunEffects

SpecBrowser == InitBrowser /\ [][NextBrowser]_vars

\* the move pipeline and the self-play tracker in one session
NextSession ==
  \/ \E xy \in BannerClicks : HandleMove(xy[1], xy[2])
  \/ HandleAiMove
  \/ SelfPlayStart
  \/ SelfPlayStop
  \/ EndTurn
  \/ \E p \in Slots : MakeMoveResolved(p)
  \/ \E p \in Slots : AiMoveResolved(p)
  \/ \E p \in Slots : RatingsRefreshed(p)
  \/ \E p \in Slots : StartSelfPlayResolved(p)
  \/ \E p \in Slots : StopSelfPlayResolved(p)
  \/ SelfPlayHalfway
  \/ SelfPlayDone
  \/ SelfPlayError
  \/ \E p \in Slots : OnCompleteResolved(p)
  \/ Render
  \/ RunEffects

SpecSession == InitHosted /\ [][NextSession]_vars

\* the ETA display
NextFormat == FormatDuration

SpecFormat == InitHosted /\ [][NextFormat]_vars

\* ------------------------------------------------------------- move pipeline claims
Outstanding(cmd) == {p \in Slots : procs[p].pc = cmd}

\* the invocation whose pending call cmd is answered by the step
Answered(p, cmd) == procs[p].pc = cmd /\ procs'[p].pc # cmd

\* C1: for every sequence of makeMove invocations, those made back-to-back in one
\* event-loop turn before a re-render included, at most one make_move call is
\* outstanding at the engine gateway at any time.
C1_OneMakeMoveOutstanding == Cardinality(Outstanding("make_move")) <= 1

\* C2: when make_move fails, makeMove returns with the snapshot it found (it has
\* applied none), the failure message in the error slot, canRetryAi false, no
\* ai_move issued and the ratings callback not invoked.
C2_MakeMoveFailure ==
  [][\A p \in Slots :
       (ev'.k = "mm_failed" /\ Answered(p, "make_move"))
         => /\ procs'[p] = Idle
            /\ game' = game
            /\ procs[p].applied = NoSnap
            /\ error' = ErrText("make_move")
            /\ canRetryAi' = FALSE
            /\ procs[p].ai = 0
            /\ Outstanding("ai_move")' \subseteq Outstanding("ai_move")
            /\ procs[p].ratings = 0
            /\ Outstanding("ratings")' \subseteq Outstanding("ratings")]_vars

\* a failed human move has been surfaced and the pipeline is idle again
C2_Witness ==
  /\ ev.k = "mm_failed"
  /\ error = ErrText("make_move") /\ ~canRetryAi
  /\ game = defaultSnapshot
  /\ \A p \in Slots : procs[p] = Idle

\* C3: when make_move succeeds and the automatic ai_move reply fails, makeMove
\* returns with the snapshot make_move returned (the human move is not rolled
\* back), the ai_move failure message in the error slot, canRetryAi true and
\* busy false.
C3_AutoReplyFailure ==
  [][\A p \in Slots :
       (ev'.k = "ai_failed" /\ ev'.op = "makeMove" /\ Answered(p, "ai_move"))
         => /\ procs'[p] = Idle
            /\ game' = game
            /\ procs[p].mm # NoSnap /\ procs[p].applied = procs[p].mm
            /\ (procs[p].mine => game' = procs[p].mm)
            /\ error' = ErrText("ai_move")
            /\ canRetryAi' = TRUE
            /\ busy' = FALSE]_vars

\* the automatic reply has failed: the human stone stands, a retry is offered
C3_Witness ==
  /\ ev.k = "ai_failed" /\ ev.op = "makeMove"
  /\ game = eng /\ Len(game.moves) = 1 /\ game.moves[1].player = "B"
  /\ error = ErrText("ai_move") /\ canRetryAi /\ ~busy

\* C4: every makeMove or requestAiMove invocation that set busy clears it on every
\* exit path, a failing playStoneSound included: busy is never left true once no
\* invocation of the move pipeline is in progress.
C4_BusyCleared ==
  (\A p \in Slots : procs[p].op \notin {"makeMove", "requestAiMove"}) => ~busy

\* C5: after a successful make_move, makeMove issues ai_move if and only if the
\* returned snapshot has no result, its mode is human_vs_ai and canHumanMove is
\* false; it issues it only once the make_move response is in, and at most once
\* per invocation.
C5_AutoReply ==
  /\ [](\A p \in Slots : procs[p].op = "makeMove" => procs[p].ai <= 1)
  /\ [][\A p \in Slots :
          (ev'.k \in {"mm_ok", "mm_threw"} /\ Answered(p, "make_move"))
            => /\ procs[p].ai = 0
               /\ (procs'[p].pc = "ai_move")
                    <=> (/\ eng'.result = NULL
                         /\ eng'.mode.type = "human_vs_ai"
                         /\ ~eng'.canHumanMove)]_vars

\* C6: within one makeMove invocation the ratings callback is invoked exactly once
\* when the last snapshot the invocation applied is terminal, and not at all
\* otherwise.
C6_RatingsOnce ==
  [][\A p \in Slots :
       (procs[p].op = "makeMove" /\ procs'[p].op = "idle")
         => LET last == IF ev'.k \in {"mm_ok", "mm_threw", "ai_ok", "ai_threw"}
                          THEN eng' ELSE procs[p].applied
                terminal == last # NoSnap /\ last.result # NULL
            IN procs[p].ratings = IF terminal THEN 1 ELSE 0]_vars

C8_RequestAiMove ==
  /\ [][(ev'.k = "requestAiMove" /\ (rBusy \/ rGame.result # NULL))
          => UNCHANGED <<eng, cvars>>]_vars
  /\ [][(ev'.k = "timeout" /\ rBusy)
          => UNCHANGED <<eng, game, busy, error, canRetryAi, procs>>]_vars
  /\ [][\A p \in Slots :
          (ev'.op = "requestAiMove" /\ Answered(p, "ai_move"))
            => /\ ev'.k \in {"ai_ok", "ai_threw"} => game' = eng' /\ eng' # eng
               /\ ev'.k = "ai_failed"
                    => /\ game' = game
                       /\ error' = ErrText("ai_move") /\ canRetryAi' = TRUE]_vars

C10_StopCancels ==
  stopped => /\ intervals = {} /\ intervalRef = NoInterval
             /\ tickAfterStop = 0
             /\ autoAfterStop <= 1

\* stop() came while a step was in flight: that step is the only one
C10_Witness ==
  /\ ev.k = "stop" /\ rGame.mode.type = "ai_vs_ai"
  /\ stopped /\ ~isPlaying /\ intervals = {} /\ autoAfterStop = 1
  /\ \E p \in Slots : procs[p].viaStep /\ procs[p].pc = "ai_move"

\* nothing is waiting to be rendered and no effect is waiting to run
Settled == ~dirty /\ ~effectPending /\ turn = 0

\* the condition under which the scheduler may be playing
Governing(g) == g.mode.type = "ai_vs_ai" /\ g.result = NULL

StepsInFlight == {p \in Slots : procs[p].viaStep}

\* the step taken dispatched a new auto-play step
StepDispatched == \E p \in Slots : procs'[p].viaStep /\ ~procs[p].viaStep

\* C11: when auto-play is playing and the game gets a terminal result or its
\* mode leaves ai_vs_ai, the scheduler's effects set isPlaying to false and cancel
\* the interval, with no stop() call; in every settled state isPlaying implies
\* that the mode is ai_vs_ai and the game has no result.
C11_ForcedStop ==
  /\ (rIsPlaying /\ ~Governing(rGame) /\ ~effectPending)
        => ~isPlaying /\ intervals = {} /\ intervalRef = NoInterval
  /\ Settled => /\ isPlaying => Governing(game)
                /\ ~Governing(game) => intervals = {} /\ intervalRef = NoInterval

\* the user left a playing AI-vs-AI game for another mode: the effects of that
\* render stopped the scheduler, stop() was not called
C11_Witness ==
  /\ ev.k = "effects"
  /\ rIsPlaying /\ rGame.mode.type = "human_vs_human"
  /\ ~stopped /\ ~isPlaying /\ intervals = {}

\* C12: a tick that finds the stepping latch set is skipped and not queued: at
\* most one auto-play step is in flight at any time, the latch being set exactly
\* while one is.
C12_StepLatch ==
  /\ [](Cardinality(StepsInFlight) <= 1 /\ (steppingRef <=> StepsInFlight # {}))
  /\ [][(ev'.k = "tick" /\ steppingRef) => UNCHANGED <<eng, cvars>>]_vars

\* a tick whose own busy guard would have let it through was skipped by the latch
C12_Witness ==
  /\ ev.k = "tick" /\ ~ev.cl.busy /\ ~ev.cl.over
  /\ isPlaying /\ steppingRef
  /\ Cardinality(StepsInFlight) = 1
  /\ Cardinality(Outstanding("ai_move")) = 1

\* C13: the render of a speed change made while playing leaves exactly one
\* interval, at the new speed's period, and dispatches no step of its own.
C13_SpeedChange ==
  [][(rSpeed' # rSpeed /\ ~effectPending /\ rIsPlaying /\ rIsPlaying' /\ isPlaying')
       => /\ Cardinality(intervals') = 1
          /\ \A h \in intervals' : h.period = SPEED_INTERVALS(rSpeed')
          /\ ~StepDispatched]_vars

\* C14: apart from the one step attempted on entering playing, a step is
\* attempted only by an interval tick: outside the turns of user events, where
\* playing is entered, what dispatches a step is a tick, never the effects of a
\* re-render that changed none of isPlaying, speed, mode and terminal status.
C14_StepsOnlyOnTicks ==
  [][(/\ StepDispatched
      /\ turn = 0 /\ turn' = 0
      /\ rIsPlaying' = rIsPlaying /\ rSpeed' = rSpeed
      /\ rGame'.mode = rGame.mode
      /\ (rGame'.result = NULL) <=> (rGame.result = NULL))
       => ev'.k = "tick"]_vars

\* C15: stop() aborts no invocation in flight; when the ai_move of a step that
\* was in flight at stop() is answered, the snapshot is replaced or the error
\* surfaced as ever, and neither the answer nor the renders that follow it
\* dispatch a step or set up an interval.
C15_StopLeavesStepInFlight ==
  /\ [][ev'.k = "stop"
          => \A p \in Slots : procs[p].op # "idle" => procs'[p] = procs[p]]_vars
  /\ [][\A p \in Slots :
          (stopped /\ procs[p].viaStep /\ Answered(p, "ai_move"))
            => /\ ev'.k \in {"ai_ok", "ai_threw"} => game' = eng' /\ eng' # eng
               /\ ev'.k = "ai_failed"
                    => /\ game' = game
                       /\ error' = ErrText("ai_move") /\ canRetryAi' = TRUE
               /\ ~StepDispatched /\ intervals' = {}]_vars
  /\ [][(stopped /\ ev'.k \in {"render", "effects", "ratings"})
          => ~StepDispatched /\ intervals' = {}]_vars

\* the step that stop() found in flight has been answered and applied
C15_Witness ==
  /\ ev.k = "ai_ok" /\ ev.op = "requestAiMove"
  /\ stopped /\ wasPlaying /\ autoAfterStop = 1 /\ ~isPlaying /\ intervals = {}
  /\ game = eng /\ game.mode.type = "ai_vs_ai" /\ Len(game.moves) = 1 /\ ~busy
  /\ \A p \in Slots : procs[p] = Idle

\* ------------------------------------------------------------- self-play claims
\* C16: a start() issued while a run is busy, one issued in the same event-loop
\* turn as the previous start() included, dispatches no second start_self_play
\* and changes no tracker state: at most one start_self_play is outstanding.
C16_OneStartOutstanding ==
  /\ [](Cardinality(Outstanding("start_self_play")) <= 1)
  /\ [][(ev'.k = "sp_start" /\ spBusy) => UNCHANGED <<cvars, tvars>>]_vars

\* C17: when start_self_play rejects or answers "not started" (null or false),
\* busy is false at once and progress, report, ETA and error are as they were.
C17_StartNotStarted ==
  [][\A p \in Slots :
       (Answered(p, "start_self_play") /\ ev'.k \in {"sp_null", "sp_false", "sp_rejected"})
         => /\ spBusy' = FALSE
            /\ UNCHANGED <<progress, report, eta, spError>>]_vars

\* C18: on every progress event {completed, total} the ETA shows
\* (total - completed) * (elapsedSeconds / completed), elapsed time being measured
\* from the anchor timestamp (set by the event if there is none); when completed
\* or total is 0 the ETA is null, neither a zero duration nor an earlier value.
C18_Eta ==
  [][ev'.k = "sp_progress"
       => LET completed == ev'.x
              total == ev'.y
              anchor == IF startRef = 0 THEN now ELSE startRef
          IN /\ progress' = [completed |-> completed, total |-> total]
             /\ startRef' = anchor
             /\ eta' = IF completed = 0 \/ total = 0 THEN NULL
                       ELSE formatDuration(Num((total - completed) * (now - anchor),
                                               1000 * completed))]_vars

\* one of two games is done a minute after the start: a minute remains
C18_Witness ==
  /\ ev.k = "sp_progress" /\ ev.x = 1 /\ ev.y = 2
  /\ spBusy /\ startRef = Epoch /\ now = Epoch + 60000
  /\ progress = [completed |-> 1, total |-> 2]
  /\ eta = "1m 00s"

\* the string the thresholds of the contract give for v seconds
TwoDigits(k) == ToString(k \div 10) \o ToString(k % 10)

DurationText(v) ==
  IF v.kind # "num" \/ v.n <= 0 THEN "0s"
  ELSE LET whole == v.n \div v.d
       IN IF v.n < 60 * v.d THEN ToString(whole) \o "s"
          ELSE IF v.n < 3600 * v.d
            THEN ToString(whole \div 60) \o "m " \o TwoDigits(whole % 60) \o "s"
          ELSE ToString(whole \div 3600) \o "h " \o TwoDigits((whole \div 60) % 60) \o "m"

\* C19: formatDuration gives whole seconds ('Ns') under 60 seconds, minutes and
\* two-digit seconds ('Mm SSs') from 60 to under 3600 seconds, hours and two-digit
\* minutes ('Hh MMm') from 3600 seconds, and '0s' for a non-finite or non-positive
\* argument.
C19_FormatDuration == formatted # NULL => formatted = DurationText(seconds)

\* exactly one hour
C19_Witness == seconds = Num(7200, 2) /\ formatted = "1h 00m"

\* C20: on self_play_done the tracker stores the report, clears busy, progress
\* and ETA, resets the anchor timestamp and invokes onComplete exactly once.
C20_Done ==
  [][ev'.k = "sp_done"
       => /\ report' = [completedGames |-> ev'.x, stopped |-> (ev'.y = 1)]
          /\ spBusy' = FALSE /\ progress' = NoProgress /\ eta' = NULL
          /\ startRef' = 0
          /\ Cardinality({p \in Slots : procs'[p].op = "selfPlay.done"
                                          /\ procs[p].op # "selfPlay.done"}) = 1
          /\ \A p \in Slots : procs[p].op # "idle" => procs'[p] = procs[p]]_vars

\* a run that had reported progress has ended: its report stands, the ratings
\* refresh is under way
C20_Witness ==
  /\ ev.k = "sp_done"
  /\ report = [completedGames |-> MaxTotal, stopped |-> FALSE]
  /\ rSpBusy /\ ~spBusy /\ progress = NoProgress /\ eta = NULL /\ startRef = 0
  /\ Cardinality({p \in Slots : procs[p].op = "selfPlay.done"}) = 1

\* what the banner shows
errorBanner == DisplayedError(S)

\* C21: on self_play_error the tracker clears busy, progress and ETA, produces no
\* report and invokes no ratings callback, and the event's message is the error
\* the banner shows.
C21_ErrorEvent ==
  [][ev'.k = "sp_error"
       => /\ spBusy' = FALSE /\ progress' = NoProgress /\ eta' = NULL
          /\ report' = report
          /\ procs' = procs
          /\ spError' \in ErrorPayloads
          /\ errorBanner' = spError']_vars

\* C22: stop() with busy false issues no call and changes nothing; with busy true
\* it issues one stop_self_play and leaves busy alone, as do the call's success
\* and its failure; once a run is started, busy becomes false only on
\* self_play_done or self_play_error.
C22_StopLeavesBusy ==
  /\ [][(ev'.k = "sp_stop" /\ ~rSpBusy) => UNCHANGED <<eng, cvars>>]_vars
  /\ [][(ev'.k = "sp_stop" /\ rSpBusy)
          => /\ spBusy' = spBusy
             /\ Cardinality({p \in Slots : /\ procs'[p].pc = "stop_self_play"
                                            /\ procs[p].pc # "stop_self_play"}) = 1]_vars
  /\ [][ev'.k \in {"sp_stopped", "sp_stop_rejected"} => spBusy' = spBusy]_vars
  /\ [][(jobRunning /\ spBusy /\ ~spBusy') => ev'.k \in {"sp_done", "sp_error"}]_vars

\* the ids of the profiles of the LLM kind that have their API key
LlmWithKey(profiles) ==
  {profiles[i].id : i \in {j \in 1..Len(profiles) :
                              profiles[j].kind = "llm" /\ profiles[j].llm = "key"}}

Range(seq) == {seq[i] : i \in 1..Len(seq)}

\* C23: toggleIncludeLlm(checked, profiles) makes llmIds exactly the ids of the
\* profiles of kind 'llm' whose API key is set when enabling, whatever it held,
\* and empty when disabling; start passes an empty llmIds whenever includeLlm is
\* false.
C23_ToggleIncludeLlm ==
  /\ [][ev'.k = "toggleIncludeLlm"
          => /\ includeLlm' = (ev'.x = 1)
             /\ Range(llmIds') = IF ev'.x = 1 THEN LlmWithKey(ProfileLists[ev'.y]) ELSE {}
             /\ Len(llmIds') = Cardinality(Range(llmIds'))]_vars
  /\ [][ev'.k = "sp_start"
          => \A p \in Slots :
               (procs'[p].pc = "start_self_play" /\ procs[p].pc # "start_self_play"
                  /\ ~rIncludeLlm)
                 => procs'[p].llmIds = << >>]_vars

\* enabling replaced a hand-made selection by the two profiles that qualify
C23_Witness ==
  /\ ev.k = "toggleIncludeLlm" /\ ev.x = 1 /\ ev.y = 4
  /\ includeLlm /\ llmIds = <<"c", "a">>
  /\ rLlmIds = <<"b">>

\* C24: goBack() from settings with a page other than home yields settings.home,
\* from settings.home welcome, and from play welcome, whatever settingsPage was
\* left over.
C24_GoBack ==
  [][ev'.k = "goBack"
       => CASE navMode = "settings" /\ settingsPage # "home"
                 -> navMode' = "settings" /\ settingsPage' = "home"
            [] navMode = "settings" /\ settingsPage = "home" -> navMode' = "welcome"
            [] navMode = "play" -> navMode' = "welcome" /\ settingsPage' = settingsPage
            [] OTHER -> TRUE]_vars

\* C25: whatever the navigation state, goToSettings() gives settings.home and
\* goToSettingsPage(p) gives settings.p.
C25_GoToSettings ==
  /\ [][ev'.k = "goToSettings" => (navMode' = "settings" /\ settingsPage' = "home")]_vars
  /\ [][ev'.k = "goToSettingsPage"
          => (navMode' = "settings" /\ settingsPage' = ev'.op)]_vars

\* goToSettings() from play, where the page of an earlier visit was left over
C25_Witness ==
  /\ ev.k = "goToSettings"
  /\ rNavMode = "play" /\ rSettingsPage = "ai"
  /\ navMode = "settings" /\ settingsPage = "home"

\* C26: after a successful new game as human_vs_ai with the human playing W,
\* exactly one ai_move is requested with force = true, no make_move is in flight
\* with it, and the snapshot it returns shows one move, made by B.
C26_FirstAiMove ==
  /\ [][(ev'.k = "timeout" /\ game.mode = HvaW /\ ~busy)
          => Cardinality({p \in Slots : /\ procs'[p].pc = "ai_move" /\ procs'[p].force
                                         /\ procs[p].pc # "ai_move"}) = 1]_vars
  /\ [][(game.mode = HvaW /\ game.moves = << >>)
          => \A p \in Slots : procs'[p].pc = "make_move" => procs[p].pc = "make_move"]_vars
  /\ [][\A p \in Slots :
          (/\ Answered(p, "ai_move") /\ procs[p].force /\ game.mode = HvaW
           /\ ev'.k \in {"ai_ok", "ai_threw"})
            => (Len(game'.moves) = 1 /\ game'.moves[1].player = "B")]_vars

\* the calls whose response replaces the snapshot
SnapshotCalls == {"make_move", "ai_move", "new_game"}

\* C30: at most one call whose response replaces the snapshot is in flight, so no
\* move call issued before a new_game is still outstanding when new_game is
\* answered, to be applied on top of the new game.
C30_OneSnapshotCall ==
  /\ [](Cardinality({p \in Slots : procs[p].pc \in SnapshotCalls}) <= 1)
  /\ [][ev'.k = "ng_ok"
          => Outstanding("make_move") \cup Outstanding("ai_move") = {}]_vars

\* C27: without the Tauri host every game operation, ai_move included, sets the
\* error to the fixed message with canRetryAi false, dispatches no engine call
\* and leaves the snapshot as it was and busy false once it has returned.
C27_NoTauri ==
  /\ [](\A p \in Slots : procs[p].pc \notin SnapshotCalls)
  /\ [][eng' = eng /\ game' = game]_vars
  /\ [][(\E p \in Slots : procs'[p].pc = "no_tauri" /\ procs[p].pc # "no_tauri")
          => (error' = NoTauriText /\ ~canRetryAi')]_vars
  /\ [][ev'.k = "no_tauri" => UNCHANGED <<error, canRetryAi>>]_vars
  /\ [](MicrotasksDone => ~busy)

\* the forced requestAiMove of a new game as W has returned
C27_Witness ==
  /\ ev.k = "no_tauri" /\ ev.op = "requestAiMove"
  /\ games = 1 /\ timeouts = {}
  /\ error = NoTauriText /\ ~canRetryAi /\ ~busy /\ game = defaultSnapshot
  /\ MicrotasksDone

\* C28: the banner is one slot with last-write-wins: when a game error and a
\* self-play error both stand, it shows the one that was set last.
C28_LastWriteWins ==
  (error # NULL /\ spError # NULL)
    => errorBanner = IF lastSurfaced = "selfPlay" THEN spError ELSE error

\* C29: whatever set the error the banner shows, Dismiss leaves no error shown
\* and no retry offered, and so does the next successful call of the move
\* pipeline.
C29_Cleared ==
  /\ [][ev'.k = "clearError" => (errorBanner' = NULL /\ ~canRetryAi')]_vars
  /\ [][ev'.k \in {"mm_ok", "mm_threw", "ai_ok", "ai_threw"}
          => (errorBanner' = NULL /\ ~canRetryAi')]_vars

\* the Retry button, there when the banner offers it
Retry ==
  /\ DisplayedError(S) # NULL /\ canRetryAi /\ game.result = NULL
  /\ HandleAiMove

\* the move pipeline with its banner: a move and its reply, Retry, Dismiss, a
\* save, and a self-play run that the host refuses
NextRetry ==
  \/ \E xy \in BannerClicks : HandleMove(xy[1], xy[2])
  \/ Retry
  \/ Dismiss
  \/ SaveGame
  \/ SelfPlayStart
  \/ EndTurn
  \/ \E p \in Slots : MakeMoveRejected(p)
  \/ \E p \in Slots : MakeMoveResolved(p)
  \/ \E p \in Slots : AiMoveRejected(p)
  \/ \E p \in Slots : AiMoveResolved(p)
  \/ \E p \in Slots : RatingsRefreshed(p)
  \/ \E p \in Slots : SaveGameResolved(p)
  \/ \E p \in Slots : SaveGameRejected(p)
  \/ \E p \in Slots : StartSelfPlayRejected(p)
  \/ Render
  \/ RunEffects

SpecRetry == InitHosted /\ [][NextRetry]_vars

\* ------------------------------------------------------------- cross-cutting claims
\* C31: whatever asks for an engine step (a tick, the Step control, Retry, the
\* automatic reply, the forced first move), at most one ai_move is outstanding;
\* a step asked for while one is outstanding dispatches nothing.
C31_OneAiMoveOutstanding ==
  /\ [](Cardinality(Outstanding("ai_move")) <= 1)
  /\ [][Outstanding("ai_move") # {}
          => \A p \in Slots : procs'[p].pc = "ai_move" => procs[p].pc = "ai_move"]_vars

\* C32: a progress, done or error event that arrives while busy is false changes
\* none of progress, ETA, report, busy and the anchor timestamp; busy = false
\* implies progress = null and ETA = null.
C32_StaleEvents ==
  /\ [](~spBusy => (progress = NoProgress /\ eta = NULL))
  /\ [][(ev'.k \in {"sp_progress", "sp_done", "sp_error"} /\ ~spBusy)
          => UNCHANGED <<progress, eta, report, spBusy, startRef>>]_vars

\* C33: the report is null from a successful start() until that run's
\* self_play_done, is that event's payload from then on, whatever else happens,
\* and is reset to null only by the next start().
C33_Report ==
  /\ [](jobRunning => report = NoReport)
  /\ [][ev'.k = "sp_done"
          => report' = [completedGames |-> ev'.x, stopped |-> (ev'.y = 1)]]_vars
  /\ [][report' # report => ev'.k \in {"sp_done", "sp_start"}]_vars
  /\ [][(ev'.k = "sp_start" /\ report' # report) => report' = NoReport]_vars

\* the steps of the self-play tracker and those of the move pipeline
TrackerSteps ==
  {"sp_start", "sp_started", "sp_false", "sp_null", "sp_rejected", "sp_stop",
   "sp_stopped", "sp_stop_rejected", "sp_progress", "sp_done", "sp_error", "sp_ratings"}

PipelineSteps ==
  {"makeMove", "requestAiMove", "mm_ok", "mm_threw", "mm_failed", "ai_ok", "ai_threw",
   "ai_failed", "ratings"}

\* C34: self-play start, stop and events never change the move pipeline's busy
\* or the snapshot; makeMove and requestAiMove are accepted while a self-play run
\* is busy; move-pipeline operations never change the tracker's busy, progress,
\* report or ETA.
C34_IndependentGuards ==
  /\ [][ev'.k \in TrackerSteps => UNCHANGED <<busy, game, eng>>]_vars
  /\ [][ev'.k \in PipelineSteps => UNCHANGED <<spBusy, progress, report, eta>>]_vars
  /\ [][(ev'.k = "makeMove" /\ rSpBusy /\ spBusy
           /\ MovePrecondition(S, ev'.x, ev'.y))
          => \E p \in Slots : procs'[p].pc = "make_move" /\ procs[p].pc # "make_move"]_vars
  /\ [][(ev'.k = "requestAiMove" /\ rSpBusy /\ spBusy /\ AiPrecondition(Closure(S), FALSE))
          => \E p \in Slots : procs'[p].pc = "ai_move" /\ procs[p].pc # "ai_move"]_vars

\* a move was accepted while a self-play run was busy and reporting progress
C34_Witness ==
  /\ ev.k = "makeMove"
  /\ spBusy /\ rSpBusy /\ jobRunning /\ progress # NoProgress
  /\ busy /\ Outstanding("make_move") # {}

\* C35: canRetryAi implies a game error that a failed ai_move produced: no retry
\* without a visible error, none after a failed make_move or save_game, and the
\* banner next to the retry shows the game error, not a self-play message.
C35_RetryOnlyAfterAiMove ==
  /\ [](canRetryAi => (error = ErrText("ai_move") /\ errorBanner = error))
  /\ [][ev'.k \in {"mm_failed", "save_failed"} => ~canRetryAi']_vars
  /\ [][(~canRetryAi /\ canRetryAi') => ev'.k = "ai_failed"]_vars

C35_Witness ==
  /\ ev.k = "ai_failed"
  /\ canRetryAi /\ spError # NULL
  /\ errorBanner = ErrText("ai_move")

\* C36: when handleNewGame's new_game fails the snapshot stays as it was, and the
\* handler, once it has finished, has armed no timer for a forced first move,
\* whatever the mode it was asked for.
C36_FailedNewGame ==
  /\ [][ev'.k = "ng_failed" => game' = game]_vars
  /\ [][\A p \in Slots :
          (/\ procs[p].op = "handleNewGame" /\ procs[p].pc = "ratings"
           /\ procs[p].applied = NoSnap
           /\ procs'[p].op = "idle")
            => timeouts' = timeouts]_vars

\* a reply is owed after a failed automatic reply, and the retry is on offer
RetryOwed ==
  /\ game.mode.type = "human_vs_ai" /\ game.result = NULL /\ ~game.canHumanMove
  /\ ~busy /\ \A p \in Slots : procs[p].pc \notin {"make_move", "ai_move", "ratings"}
  /\ canRetryAi

\* C37: while a reply is owed in a human_vs_ai game and the pipeline is idle, the
\* retry stays on offer with its error shown until an ai_move succeeds: Dismiss
\* does not remove it, nor does a successful call of another command.
C37_RetryRemains ==
  [][(RetryOwed /\ ev'.k \notin {"ai_ok", "ai_threw"})
       => (canRetryAi' /\ errorBanner' = ErrText("ai_move"))]_vars

\* C38: in the tracker busy implies that there is no report: start() clears the
\* report in the step in which it sets busy, and self_play_done sets the report
\* in the step in which it clears busy.
C38_BusyNoReport ==
  /\ [](spBusy => report = NoReport)
  /\ [][(ev'.k = "sp_start" /\ ~spBusy /\ spBusy') => report' = NoReport]_vars
  /\ [][ev'.k = "sp_done" => (report' # NoReport /\ ~spBusy')]_vars

C38_Witness ==
  /\ ev.k = "sp_start"
  /\ spBusy /\ report = NoReport
  /\ \E p \in Slots : procs[p].op = "selfPlay.done"

\* C39: isPlaying goes from true to false only by stop(), on a terminal result or
\* when the mode is no longer ai_vs_ai; a step whose ai_move failed leaves
\* isPlaying and the interval as they were, and the tick that follows the failure
\* dispatches ai_move again.
C39_FailedStep ==
  /\ [][(isPlaying /\ ~isPlaying')
          => \/ ev'.k = "stop"
             \/ rGame'.result # NULL
             \/ rGame'.mode.type # "ai_vs_ai"]_vars
  /\ [][(ev'.k = "ai_failed" /\ ev'.op = "requestAiMove")
          => (isPlaying' = isPlaying /\ intervals' = intervals
              /\ intervalRef' = intervalRef)]_vars
  /\ [][(/\ ev.k = "ai_failed" /\ canRetryAi
         /\ isPlaying /\ rIsPlaying /\ intervals # {}
         /\ ev'.k = "tick")
          => StepDispatched]_vars

\* C40: goBack() from welcome changes neither mode nor settingsPage;
\* goToWelcome() and goToPlay() set mode and leave settingsPage alone; mode is
\* always one of welcome, play, settings and settingsPage one of the five pages.
C40_NavigationFrame ==
  /\ [][(ev'.k = "goBack" /\ navMode = "welcome")
          => UNCHANGED <<navMode, settingsPage>>]_vars
  /\ [][ev'.k = "goToWelcome" => (navMode' = "welcome" /\ settingsPage' = settingsPage)]_vars
  /\ [][ev'.k = "goToPlay" => (navMode' = "play" /\ settingsPage' = settingsPage)]_vars
  /\ [](navMode \in {"welcome", "play", "settings"} /\ settingsPage \in SettingsPages)

====
